---- MODULE Spec2Model ----
(***************************************************************************)
(* A model of config-switch-int.py: the generator of systemd-networkd      *)
(* .link/.network fragments and advisory "bridge vlan" commands for one    *)
(* interface.                                                              *)
(*                                                                         *)
(* Python strings are sequences of one-character strings, so that strip,   *)
(* lower, split and the regular expressions are computed, not assumed.     *)
(* Python's None is the value None below.  A text the program builds       *)
(* (file content, command) is a sequence of lines; a line is a pair        *)
(* <<fixed text, interpolated string>>, a command is a tuple of its words. *)
(***************************************************************************)
EXTENDS Naturals, Sequences, FiniteSets, TLC

VARIABLES
    args,             \* argparse namespace: interactive, interface, mac, ...
    hostMac,          \* /sys/class/net/<iface>/address: [outcome, text]
    linkFile,         \* existing 00-<iface>.link: [exists, readable, sections]
    netFile,          \* existing 20-<iface>.network: same
    pc,               \* position of main()
    mode,             \* branch taken at line 214: "none", "interactive", "flag"
    interface_name,   \* the local of line 219
    config,           \* the dict config of main() (NoConfig before it is bound)
    loaded,           \* what load_existing_config returned (NoConfig before)
    invoked,          \* the helpers called so far
    answers,          \* raw lines typed at the six field prompts
    confirmRaw,       \* raw line typed at the write prompt (NotAsked before)
    link_content,
    network_content,
    iproute2_commands,
    out,              \* console transcript: sequence of print/prompt events
    fsOps             \* directory creations and file writes performed

vars == <<args, hostMac, linkFile, netFile, pc, mode, interface_name, config,
          loaded, invoked, answers, confirmRaw, link_content, network_content,
          iproute2_commands, out, fsOps>>

(***************************************************************************)
(* Strings                                                                 *)
(***************************************************************************)
None == <<"<None>">>
NotAsked == <<"<NotAsked>">>

UpperCase == <<"A","B","C","D","E","F","G","H","I","J","K","L","M",
               "N","O","P","Q","R","S","T","U","V","W","X","Y","Z">>
LowerCase == <<"a","b","c","d","e","f","g","h","i","j","k","l","m",
               "n","o","p","q","r","s","t","u","v","w","x","y","z">>
Digits == {"0","1","2","3","4","5","6","7","8","9"}
HexLower == Digits \cup {"a","b","c","d","e","f"}
Whitespace == {" ", "\t", "\n"}

\* bool(x) of a str-or-None
Truthy(x) == x # None /\ x # <<>>

\* x or y
Or(x, y) == IF Truthy(x) THEN x ELSE y

LowerChar(c) ==
    IF \E i \in 1..26 : UpperCase[i] = c
    THEN LowerCase[CHOOSE i \in 1..26 : UpperCase[i] = c]
    ELSE c

\* str.lower()
Lower(s) == [i \in 1..Len(s) |-> LowerChar(s[i])]

RECURSIVE LStrip(_)
LStrip(s) ==
    IF s # <<>> /\ Head(s) \in Whitespace THEN LStrip(Tail(s)) ELSE s

RECURSIVE RStrip(_)
RStrip(s) ==
    IF s # <<>> /\ s[Len(s)] \in Whitespace
    THEN RStrip(SubSeq(s, 1, Len(s) - 1))
    ELSE s

\* str.strip()
Strip(s) == RStrip(LStrip(s))

\* str.split(',')
RECURSIVE SplitAcc(_, _)
SplitAcc(s, cur) ==
    IF s = <<>> THEN <<cur>>
    ELSE IF Head(s) = "," THEN <<cur>> \o SplitAcc(Tail(s), <<>>)
    ELSE SplitAcc(Tail(s), Append(cur, Head(s)))

SplitComma(s) == SplitAcc(s, <<>>)

\* the capture of (\d+) at the start of s: the longest run of digits
RECURSIVE DigitsPrefix(_)
DigitsPrefix(s) ==
    IF s # <<>> /\ Head(s) \in Digits
    THEN <<Head(s)>> \o DigitsPrefix(Tail(s))
    ELSE <<>>

Range(s) == {s[i] : i \in 1..Len(s)}

NoDuplicates(s) == \A i, j \in 1..Len(s) : s[i] = s[j] => i = j

\* the orders list(set(...)) may return: every arrangement of the set
Orderings(S) ==
    {s \in [1..Cardinality(S) -> S] : Range(s) = S}

(***************************************************************************)
(* MAC Resolver: get_interface_mac                                         *)
(***************************************************************************)
\* re.match(r'^([0-9a-f]{2}:){5}[0-9a-f]{2}$', s): s is already lower-cased
\* and stripped, so the $ that tolerates one trailing newline adds nothing
MacPattern(s) ==
    /\ Len(s) = 17
    /\ \A i \in 1..17 :
          IF i % 3 = 0 THEN s[i] = ":" ELSE s[i] \in HexLower

\* the exceptions the except clause of line 17 names
CaughtByResolver == {"FileNotFoundError", "PermissionError"}

\* whether the open/read of lines 10-11 raises past the except clause
ResolverRaises(h) == h.outcome \notin ({"ok"} \cup CaughtByResolver)

\* the value get_interface_mac returns when it returns
get_interface_mac(h) ==
    IF h.outcome = "ok"
    THEN LET mac_address == Strip(h.text)
         IN  IF MacPattern(Lower(mac_address)) THEN mac_address ELSE None
    ELSE None

(***************************************************************************)
(* Existing-Config Loader: load_existing_config                            *)
(*                                                                         *)
(* A readable file is a sequence of sections [header, lines]; a line is a  *)
(* pair <<key, value>> standing for the text key=value.  The header "" is  *)
(* the text before the first bracketed header.                             *)
(***************************************************************************)
NoFile == [exists |-> FALSE, readable |-> FALSE, sections |-> <<>>]
Unreadable == [exists |-> TRUE, readable |-> FALSE, sections |-> <<>>]
Readable(secs) == [exists |-> TRUE, readable |-> TRUE, sections |-> secs]
NoMatch == <<"<NoMatch>">>

\* os.path.exists(path) holds and open/read do not raise
IsContent(f) == f.exists /\ f.readable

\* re.search(r'\[name\]...', content) is not None
HasSection(secs, name) == \E i \in 1..Len(secs) : secs[i].header = name

\* re.search(r'\[name\](.*?)(?=\[|$)', content, re.DOTALL).group(1): the
\* lines of the first section with that header
SectionSearch(secs, name) ==
    LET i == CHOOSE k \in 1..Len(secs) :
                 /\ secs[k].header = name
                 /\ \A l \in 1..(k - 1) : secs[l].header # name
    IN  secs[i].lines

\* all the lines of the file, in file order: the whole-content searches
RECURSIVE AllLines(_)
AllLines(secs) ==
    IF secs = <<>> THEN <<>> ELSE Head(secs).lines \o AllLines(Tail(secs))

IsSuffix(p, k) ==
    Len(p) <= Len(k) /\ SubSeq(k, Len(k) - Len(p) + 1, Len(k)) = p

\* an unanchored pattern KEY=... matches a line whose key ends with KEY
KeyMatch(p, k, ignorecase) ==
    IF ignorecase THEN IsSuffix(Lower(p), Lower(k)) ELSE IsSuffix(p, k)

\* re.search(r'KEY=(.*)', lines).group(1).strip(), or NoMatch
RECURSIVE SearchValue(_, _)
SearchValue(lines, key) ==
    IF lines = <<>> THEN NoMatch
    ELSE IF KeyMatch(key, Head(lines)[1], FALSE) THEN Strip(Head(lines)[2])
    ELSE SearchValue(Tail(lines), key)

\* re.findall(r'KEY\s*=\s*(\d+)', lines, re.IGNORECASE)
RECURSIVE FindAllDigits(_, _)
FindAllDigits(lines, key) ==
    IF lines = <<>> THEN <<>>
    ELSE LET d == DigitsPrefix(LStrip(Head(lines)[2]))
         IN  IF KeyMatch(key, RStrip(Head(lines)[1]), TRUE) /\ d # <<>>
             THEN <<d>> \o FindAllDigits(Tail(lines), key)
             ELSE FindAllDigits(Tail(lines), key)

\* re.search(r'KEY\s*=\s*(\d+)', lines, re.IGNORECASE).group(1), or NoMatch
SearchDigits(lines, key) ==
    LET all == FindAllDigits(lines, key)
    IN  IF all = <<>> THEN NoMatch ELSE Head(all)

K_MACAddress == <<"M","A","C","A","d","d","r","e","s","s">>
K_Alias == <<"A","l","i","a","s">>
K_Bridge == <<"B","r","i","d","g","e">>
K_PVID == <<"P","V","I","D">>
K_VLAN == <<"V","L","A","N">>
K_EgressUntagged == <<"E","g","r","e","s","s","U","n","t","a","g","g","e","d">>

\* lines 36-57: the fields the .link file sets; a field it leaves alone is
\* NoMatch
LinkFileMac(file) ==
    IF ~IsContent(file) \/ ~HasSection(file.sections, "Match") THEN NoMatch
    ELSE SearchValue(SectionSearch(file.sections, "Match"), K_MACAddress)

LinkFileAlias(file) ==
    IF ~IsContent(file) \/ ~HasSection(file.sections, "Link") THEN NoMatch
    ELSE SearchValue(SectionSearch(file.sections, "Link"), K_Alias)

\* lines 66-72
NetFileBridge(file) ==
    IF ~IsContent(file) \/ ~HasSection(file.sections, "Network") THEN NoMatch
    ELSE SearchValue(SectionSearch(file.sections, "Network"), K_Bridge)

\* lines 75-81 and 108-110: the [VLAN] match is assigned first, the match
\* over the whole content second
NetFilePvid(file) ==
    IF ~IsContent(file) THEN NoMatch
    ELSE LET scoped == IF ~HasSection(file.sections, "VLAN") THEN NoMatch
                       ELSE SearchDigits(SectionSearch(file.sections, "VLAN"), K_PVID)
             whole == SearchDigits(AllLines(file.sections), K_PVID)
         IN  IF whole # NoMatch THEN whole ELSE scoped

\* lines 113-115
NetFileEgress(file) ==
    IF ~IsContent(file) THEN NoMatch
    ELSE SearchDigits(AllLines(file.sections), K_EgressUntagged)

\* lines 83-88: entries of the first [BridgeVLAN] section (the re-scan of
\* lines 99-105 finds the same entries)
BridgeVlanEntries(secs) ==
    IF ~HasSection(secs, "BridgeVLAN") THEN <<>>
    ELSE FindAllDigits(SectionSearch(secs, "BridgeVLAN"), K_VLAN)

\* lines 91-95
BridgeEntries(secs) ==
    IF ~HasSection(secs, "Bridge") THEN <<>>
    ELSE FindAllDigits(SectionSearch(secs, "Bridge"), K_VLAN)

\* faulty variant: the two scans are concatenated without the set()
NetFileVlans_Mutant(file) ==
    IF ~IsContent(file) THEN {<<>>}
    ELSE {BridgeVlanEntries(file.sections) \o BridgeEntries(file.sections)}

\* lines 83-105: the lists config['vlans'] may end as.  With neither section
\* it stays []; otherwise the last assignment is a list(set(...)), whose
\* order Python does not fix.
NetFileVlans(file) ==
    IF ~IsContent(file) THEN {<<>>}
    ELSE IF /\ ~HasSection(file.sections, "BridgeVLAN")
            /\ ~HasSection(file.sections, "Bridge")
    THEN {<<>>}
    ELSE Orderings(Range(BridgeVlanEntries(file.sections))
                   \cup Range(BridgeEntries(file.sections)))

Found(m, default) == IF m = NoMatch THEN default ELSE m

\* the dict load_existing_config returns, given the Resolver's result and the
\* order the VLAN list came out in
load_existing_config(name, resolved, lf, nf, vlans) ==
    [interface_name |-> name,
     mac_address    |-> Found(LinkFileMac(lf), resolved),
     bridge         |-> Found(NetFileBridge(nf), None),
     pvid           |-> Found(NetFilePvid(nf), None),
     egress_vlan    |-> Found(NetFileEgress(nf), None),
     vlans          |-> vlans,
     link_alias     |-> Found(LinkFileAlias(lf), None)]

(***************************************************************************)
(* Content Generators                                                      *)
(***************************************************************************)
generate_link_content(name, mac_address, link_alias) ==
    <<  <<"[Match]", <<>>>>, <<"Name=", name>> >>
    \o (IF Truthy(mac_address) THEN << <<"MACAddress=", mac_address>> >> ELSE <<>>)
    \o << <<"", <<>>>>, <<"[Link]", <<>>>> >>
    \o (IF Truthy(link_alias) THEN << <<"Alias=", link_alias>> >> ELSE <<>>)

\* line 150 / line 154
NotNoneLiteral(v) == Truthy(v) /\ Lower(v) # <<"n","o","n","e">>

generate_network_content(name, bridge, pvid, egress_vlan, vlans) ==
    <<  <<"[Match]", <<>>>>, <<"Name=", name>>, <<"", <<>>>>, <<"[Network]", <<>>>> >>
    \o (IF Truthy(bridge) THEN << <<"Bridge=", bridge>> >> ELSE <<>>)
    \o << <<"", <<>>>>, <<"[BridgeVLAN]", <<>>>> >>
    \o [i \in 1..Len(vlans) |-> <<"VLAN=", vlans[i]>>]
    \o (IF NotNoneLiteral(pvid) THEN << <<"PVID=", pvid>> >> ELSE <<>>)
    \o (IF NotNoneLiteral(egress_vlan)
        THEN << <<"EgressUntagged=", egress_vlan>> >> ELSE <<>>)

PlainAdd(vlan, name) == <<"bridge vlan add vid", vlan, "dev", name>>
PvidAdd(vlan, name) == <<"bridge vlan add vid", vlan, "dev", name, "pvid untagged">>

\* lines 165-167
RECURSIVE TaggedAdds(_, _, _)
TaggedAdds(vlans, pvid, name) ==
    IF vlans = <<>> THEN <<>>
    ELSE (IF Head(vlans) # pvid THEN <<PlainAdd(Head(vlans), name)>> ELSE <<>>)
         \o TaggedAdds(Tail(vlans), pvid, name)

\* line 170
PvidCommandWanted(pvid) == Truthy(pvid)

\* line 174
EgressCommandWanted(egress_vlan, pvid) == Truthy(egress_vlan) /\ egress_vlan # pvid

\* faulty variant: the PVID command is emitted before the tagged adds
generate_iproute2_commands_Mutant(name, bridge, pvid, egress_vlan, vlans) ==
    (IF PvidCommandWanted(pvid) THEN <<PvidAdd(pvid, name)>> ELSE <<>>)
    \o TaggedAdds(vlans, pvid, name)
    \o (IF EgressCommandWanted(egress_vlan, pvid)
        THEN <<PlainAdd(egress_vlan, name)>> ELSE <<>>)

generate_iproute2_commands(name, bridge, pvid, egress_vlan, vlans) ==
    TaggedAdds(vlans, pvid, name)
    \o (IF PvidCommandWanted(pvid) THEN <<PvidAdd(pvid, name)>> ELSE <<>>)
    \o (IF EgressCommandWanted(egress_vlan, pvid)
        THEN <<PlainAdd(egress_vlan, name)>> ELSE <<>>)

(***************************************************************************)
(* Interaction Shell: main                                                 *)
(*                                                                         *)
(* One action per step of main().  Every input() is taken to return a      *)
(* line: a closed standard input (EOFError) is outside the model.          *)
(***************************************************************************)
Ev(e, d) == [ev |-> e, data |-> d]

ValueFlags == {"interface", "mac", "alias", "bridge", "pvid", "egress", "vlans"}

\* faulty variant: --vlans is left out of the test
IsInteractive_Mutant(a) ==
    a.interactive \/ \A f \in ValueFlags \ {"vlans"} : ~Truthy(a[f])

\* line 214
IsInteractive(a) ==
    a.interactive \/ \A f \in ValueFlags : ~Truthy(a[f])

\* the value of config and loaded before the code binds them
NoConfig ==
    [interface_name |-> None, mac_address |-> None, bridge |-> None,
     pvid |-> None, egress_vlan |-> None, vlans |-> <<>>, link_alias |-> None]

\* the state before main() has run
Fresh ==
    /\ pc = "start"
    /\ mode = "none"
    /\ interface_name = None
    /\ config = NoConfig
    /\ loaded = NoConfig
    /\ invoked = {}
    /\ answers = <<>>
    /\ confirmRaw = NotAsked
    /\ link_content = <<>>
    /\ network_content = <<>>
    /\ iproute2_commands = <<>>
    /\ out = <<>>
    /\ fsOps = <<>>

\* lines 214-216
SelectMode ==
    /\ pc = "start"
    /\ IF IsInteractive(args)
       THEN /\ mode' = "interactive"
            /\ out' = Append(out, Ev("interactive_banner", <<>>))
            /\ pc' = "ask_interface"
       ELSE /\ mode' = "flag"
            /\ out' = out
            /\ pc' = "flag_config"
    /\ UNCHANGED <<args, hostMac, linkFile, netFile, interface_name, config,
                   loaded, invoked, answers, confirmRaw, link_content,
                   network_content, iproute2_commands, fsOps>>

\* lines 219-222
ReadInterfaceName(raw) ==
    /\ pc = "ask_interface"
    /\ interface_name' = Strip(raw)
    /\ IF ~Truthy(Strip(raw))
       THEN /\ out' = out \o <<Ev("prompt_interface", <<>>),
                               Ev("error_interface_required", <<>>)>>
            /\ pc' = "done"
       ELSE /\ out' = Append(out, Ev("prompt_interface", <<>>))
            /\ pc' = "load"
    /\ UNCHANGED <<args, hostMac, linkFile, netFile, mode, config, loaded,
                   invoked, answers, confirmRaw, link_content, network_content,
                   iproute2_commands, fsOps>>

\* lines 225-230.  An exception get_interface_mac does not catch leaves
\* load_existing_config and main: the run ends in a traceback.
LoadExisting ==
    /\ pc = "load"
    /\ invoked' = invoked \cup {"load_existing_config", "get_interface_mac"}
    /\ IF ResolverRaises(hostMac)
       THEN /\ pc' = "crashed"
            /\ UNCHANGED <<loaded, config, out>>
       ELSE /\ \E vl \in NetFileVlans(netFile) :
                  loaded' = load_existing_config(interface_name,
                               get_interface_mac(hostMac), linkFile, netFile, vl)
            /\ config' = loaded'
            /\ out' = Append(out, Ev("current_values", interface_name))
            /\ pc' = "ask_mac"
    /\ UNCHANGED <<args, hostMac, linkFile, netFile, mode, interface_name,
                   answers, confirmRaw, link_content, network_content,
                   iproute2_commands, fsOps>>

\* input(...).strip() or config[field]
Answered(raw, current) == Or(Strip(raw), current)

\* lines 231-235: one prompt
AskField(here, field, raw, next) ==
    /\ pc = here
    /\ config' = [config EXCEPT ![field] = Answered(raw, config[field])]
    /\ answers' = Append(answers, raw)
    /\ out' = Append(out, Ev("prompt_field", field))
    /\ pc' = next
    /\ UNCHANGED <<args, hostMac, linkFile, netFile, mode, interface_name,
                   loaded, invoked, confirmRaw, link_content, network_content,
                   iproute2_commands, fsOps>>

AskMac(raw) == AskField("ask_mac", "mac_address", raw, "ask_alias")
AskAlias(raw) == AskField("ask_alias", "link_alias", raw, "ask_bridge")
AskBridge(raw) == AskField("ask_bridge", "bridge", raw, "ask_pvid")
AskPvid(raw) == AskField("ask_pvid", "pvid", raw, "ask_egress")
AskEgress(raw) == AskField("ask_egress", "egress_vlan", raw, "ask_vlans")

\* faulty variant: the answer is added to the loaded list
VlansAnswered_Mutant(vlans_input, current) ==
    IF Truthy(vlans_input) THEN current \o SplitComma(vlans_input) ELSE current

\* line 237
VlansAnswered(vlans_input, current) ==
    IF Truthy(vlans_input) THEN SplitComma(vlans_input) ELSE current

\* lines 236-237
AskVlans(raw) ==
    /\ pc = "ask_vlans"
    /\ config' = [config EXCEPT !.vlans = VlansAnswered(Strip(raw), config.vlans)]
    /\ answers' = Append(answers, raw)
    /\ out' = Append(out, Ev("prompt_field", "vlans"))
    /\ pc' = "validate"
    /\ UNCHANGED <<args, hostMac, linkFile, netFile, mode, interface_name,
                   loaded, invoked, confirmRaw, link_content, network_content,
                   iproute2_commands, fsOps>>

\* lines 241-249
FlagConfig(a) ==
    [interface_name |-> a.interface,
     mac_address    |-> a.mac,
     link_alias     |-> a.alias,
     bridge         |-> a.bridge,
     pvid           |-> a.pvid,
     egress_vlan    |-> a.egress,
     vlans          |-> IF Truthy(a.vlans) THEN SplitComma(a.vlans) ELSE <<>>]

BuildFlagConfig ==
    /\ pc = "flag_config"
    /\ config' = FlagConfig(args)
    /\ pc' = "validate"
    /\ UNCHANGED <<args, hostMac, linkFile, netFile, mode, interface_name,
                   loaded, invoked, answers, confirmRaw, link_content,
                   network_content, iproute2_commands, out, fsOps>>

\* faulty variant: only an absent name is refused, an empty one passes
NameMissing_Mutant(c) == c.interface_name = None

\* line 252
NameMissing(c) == ~Truthy(c.interface_name)

\* lines 252-254
Validate ==
    /\ pc = "validate"
    /\ IF NameMissing(config)
       THEN /\ out' = Append(out, Ev("error_interface_required", <<>>))
            /\ pc' = "done"
       ELSE /\ out' = out
            /\ pc' = "generate"
    /\ UNCHANGED <<args, hostMac, linkFile, netFile, mode, interface_name,
                   config, loaded, invoked, answers, confirmRaw, link_content,
                   network_content, iproute2_commands, fsOps>>

\* faulty variant: the advisory commands are not printed
Printed_Mutant(lc, nc, cmds) ==
    <<Ev("generated_banner", <<>>), Ev("link_content", lc),
      Ev("network_content", nc)>>

\* lines 257-258, 274-277, 288 and 291: what is printed between validation
\* and the write prompt
Printed(lc, nc, cmds) ==
    <<Ev("generated_banner", <<>>), Ev("link_content", lc),
      Ev("network_content", nc), Ev("iproute2_commands", cmds),
      Ev("systemd_commands", <<>>)>>

\* lines 257-291
Generate ==
    /\ pc = "generate"
    /\ link_content' = generate_link_content(config.interface_name,
                           config.mac_address, config.link_alias)
    /\ network_content' = generate_network_content(config.interface_name,
                           config.bridge, config.pvid, config.egress_vlan,
                           config.vlans)
    /\ iproute2_commands' = generate_iproute2_commands(config.interface_name,
                           config.bridge, config.pvid, config.egress_vlan,
                           config.vlans)
    /\ out' = out \o Printed(link_content', network_content', iproute2_commands')
    /\ pc' = "confirm"
    /\ UNCHANGED <<args, hostMac, linkFile, netFile, mode, interface_name,
                   config, loaded, invoked, answers, confirmRaw, fsOps>>

\* faulty variant: any answer that starts with y confirms
Confirmed_Mutant(raw) ==
    Lower(Strip(raw)) # <<>> /\ Head(Lower(Strip(raw))) = "y"

\* lines 294-295
Confirmed(raw) == Lower(Strip(raw)) = <<"y">>

\* lines 294-295 and 316-317
Confirm(raw) ==
    /\ pc = "confirm"
    /\ confirmRaw' = raw
    /\ IF Confirmed(raw)
       THEN /\ out' = Append(out, Ev("prompt_write", <<>>))
            /\ pc' = "makedirs"
       ELSE /\ out' = out \o <<Ev("prompt_write", <<>>), Ev("not_written", <<>>)>>
            /\ pc' = "done"
    /\ UNCHANGED <<args, hostMac, linkFile, netFile, mode, interface_name,
                   config, loaded, invoked, answers, link_content,
                   network_content, iproute2_commands, fsOps>>

LinkPath(name) == <<"/etc/systemd/network/00-", name, ".link">>
NetworkPath(name) == <<"/etc/systemd/network/20-", name, ".network">>

\* lines 314-315: what follows an exception inside the try block
WriteError ==
    /\ out' = Append(out, Ev("error_writing", <<>>))
    /\ pc' = "done"

\* line 298
MakeDirs(ok) ==
    /\ pc = "makedirs"
    /\ IF ok
       THEN /\ fsOps' = Append(fsOps, [op |-> "makedirs", path |-> <<>>,
                                       content |-> <<>>])
            /\ out' = out
            /\ pc' = "write_link"
       ELSE /\ fsOps' = fsOps
            /\ WriteError
    /\ UNCHANGED <<args, hostMac, linkFile, netFile, mode, interface_name,
                   config, loaded, invoked, answers, confirmRaw, link_content,
                   network_content, iproute2_commands>>

\* open(path, 'w') then f.write(content): "ok", "open_fails" (nothing
\* changes) or "write_fails" (the file is left created and truncated)
WriteOutcomes == {"ok", "open_fails", "write_fails"}

FileWrite(path, content, outcome) ==
    IF outcome = "ok" THEN <<[op |-> "write", path |-> path, content |-> content]>>
    ELSE IF outcome = "write_fails"
    THEN <<[op |-> "truncate", path |-> path, content |-> <<>>]>>
    ELSE <<>>

\* lines 301-303
WriteLink(outcome) ==
    /\ pc = "write_link"
    /\ fsOps' = fsOps \o FileWrite(LinkPath(config.interface_name),
                                   link_content, outcome)
    /\ IF outcome = "ok" THEN out' = out /\ pc' = "write_network"
       ELSE WriteError
    /\ UNCHANGED <<args, hostMac, linkFile, netFile, mode, interface_name,
                   config, loaded, invoked, answers, confirmRaw, link_content,
                   network_content, iproute2_commands>>

\* lines 306-312
WriteNetwork(outcome) ==
    /\ pc = "write_network"
    /\ fsOps' = fsOps \o FileWrite(NetworkPath(config.interface_name),
                                   network_content, outcome)
    /\ IF outcome = "ok"
       THEN /\ out' = Append(out, Ev("files_written",
                         <<LinkPath(config.interface_name),
                           NetworkPath(config.interface_name)>>))
            /\ pc' = "done"
       ELSE WriteError
    /\ UNCHANGED <<args, hostMac, linkFile, netFile, mode, interface_name,
                   config, loaded, invoked, answers, confirmRaw, link_content,
                   network_content, iproute2_commands>>

(***************************************************************************)
(* Inputs                                                                  *)
(***************************************************************************)
MaxEntries == 2       \* key=value lines per section of an existing file
MaxListLen == 3       \* VLAN IDs in a --vlans list

SeqsUpTo(S, n) == UNION {[1..k -> S] : k \in 0..n}

\* ','.join(list)
RECURSIVE JoinComma(_)
JoinComma(l) ==
    IF l = <<>> THEN <<>>
    ELSE IF Len(l) = 1 THEN l[1]
    ELSE l[1] \o <<",">> \o JoinComma(Tail(l))

S_eth0 == <<"e","t","h","0">>
S_br0 == <<"b","r","0">>
S_br1 == <<"b","r","1">>
S_uplink == <<"u","p","l","i","n","k">>
S_core == <<"c","o","r","e">>
S_none == <<"n","o","n","e">>
S_None == <<"N","o","n","e">>
S_NONE == <<"N","O","N","E">>
V5 == <<"5">>
V10 == <<"1","0">>
V11 == <<"1","1">>
V12 == <<"1","2">>
V20 == <<"2","0">>
V30 == <<"3","0">>
VlanIds == {V10, V20, V30}
MacHost == <<"a","a",":","b","b",":","c","c",":","0","0",":","1","1",":","2","2">>
MacLink == <<"A","A",":","B","B",":","C","C",":","0","0",":","1","1",":","3","3">>
MacTyped == <<"0","2",":","0","0",":","0","0",":","0","0",":","0","0",":","0","1">>
MacBad == <<"a","a",":","b","b",":","c","c",":","0","0",":","1","1",":","g","g">>

NoArgs ==
    [interactive |-> FALSE, interface |-> None, mac |-> None, alias |-> None,
     bridge |-> None, pvid |-> None, egress |-> None, vlans |-> None]

\* command lines of the full runs
ArgCases ==
    { NoArgs,
      [NoArgs EXCEPT !.interactive = TRUE, !.bridge = S_br1, !.pvid = V30],
      [NoArgs EXCEPT !.interface = S_eth0, !.vlans = JoinComma(<<V10, V20, V30>>),
                     !.pvid = V10, !.egress = V30],
      [NoArgs EXCEPT !.interface = S_eth0, !.mac = MacTyped, !.alias = S_core,
                     !.bridge = S_br0, !.pvid = S_NONE, !.egress = S_none,
                     !.vlans = V10],
      [NoArgs EXCEPT !.bridge = S_br0, !.pvid = V10],
      [NoArgs EXCEPT !.interface = <<>>, !.bridge = S_br0] }

\* every combination of absent, empty and given flags
AllArgs ==
    [interactive : BOOLEAN,
     interface : {None, <<>>, S_eth0},
     mac : {None, <<>>, MacTyped},
     alias : {None, <<>>, S_core},
     bridge : {None, <<>>, S_br0},
     pvid : {None, <<>>, V10},
     egress : {None, <<>>, V30},
     vlans : {None, <<>>, JoinComma(<<V10, V20>>)}]

PvidValues == {None, <<>>, S_none, S_None, S_NONE} \cup VlanIds

\* flag-mode command lines that exercise the generators
GenArgs ==
    {[NoArgs EXCEPT !.interface = S_eth0, !.bridge = b, !.pvid = p,
                    !.egress = e, !.vlans = v] :
        b \in {None, S_br0}, p \in PvidValues, e \in PvidValues,
        v \in {None} \cup {JoinComma(l) : l \in SeqsUpTo(VlanIds, MaxListLen)}}

HostMacs ==
    { [outcome |-> "ok", text |-> MacHost \o <<"\n">>],
      [outcome |-> "ok", text |-> MacBad \o <<"\n">>],
      [outcome |-> "FileNotFoundError", text |-> <<>>],
      [outcome |-> "PermissionError", text |-> <<>>],
      [outcome |-> "NotADirectoryError", text |-> <<>>] }

Section(h, ls) == [header |-> h, lines |-> ls]
K_Name == <<"N","a","m","e">>

LinkFileFull == Readable(
    << Section("Match", << <<K_Name, S_eth0>>, <<K_MACAddress, MacLink>> >>),
       Section("Link", << <<K_Alias, S_uplink \o <<" ">> >> >>) >>)

LinkFiles == {NoFile, Unreadable, LinkFileFull}

NetFileFull == Readable(
    << Section("Match", << <<K_Name, S_eth0>> >>),
       Section("Network", << <<K_Bridge, S_br0>> >>),
       Section("BridgeVLAN", << <<K_VLAN, V10>>, <<K_VLAN, V20>>,
                                <<K_PVID, V10>>, <<K_EgressUntagged, V20>> >>) >>)

NetFiles == {NoFile, Unreadable, NetFileFull}

\* lines a [BridgeVLAN] section of a hand-written file may hold
K_vlan == <<"v","l","a","n">>
VlanLines == {<<K_VLAN, v>> : v \in VlanIds}
LinePool == VlanLines \cup { <<K_vlan \o <<" ">>, <<" ">> \o V10>>, <<K_VLAN, S_br0>> }

\* existing .network files that exercise the Loader's VLAN scan
LoaderNetFiles ==
    {Readable(
       <<Section("VLAN", << <<K_PVID, V5>> >>)>>
       \o (IF hasBv THEN <<Section("BridgeVLAN", bv)>> ELSE <<>>)
       \o (IF hasB THEN <<Section("Bridge", b)>> ELSE <<>>)
       \o (IF again THEN <<Section("BridgeVLAN", << <<K_VLAN, V30>> >>)>> ELSE <<>>)) :
        hasBv \in BOOLEAN, hasB \in BOOLEAN, again \in BOOLEAN,
        bv \in SeqsUpTo(LinePool, MaxEntries),
        b \in SeqsUpTo(VlanLines, MaxEntries)}

InterfaceAnswers == {<<>>, <<" ">>, S_eth0, <<" ">> \o S_eth0 \o <<" ">>}
MacAnswers == {<<>>, MacTyped}
AliasAnswers == {<<>>, S_core}
BridgeAnswers == {<<>>, S_br1}
PvidAnswers == {<<>>, <<" ">>, S_none}
EgressAnswers == {<<>>, V30}
VlanAnswers == {<<>>, JoinComma(<<V11, V12>>), <<" ">> \o JoinComma(<<V11, V12>>)}
ConfirmAnswers == {<<"y">>, <<" ", "Y", " ">>, <<"n">>, <<"y", "e", "s">>}

(***************************************************************************)
(* Specifications                                                          *)
(***************************************************************************)
\* full runs of main()
Init ==
    /\ args \in ArgCases
    /\ hostMac \in HostMacs
    /\ linkFile \in LinkFiles
    /\ netFile \in NetFiles
    /\ Fresh

Next ==
    \/ SelectMode
    \/ \E raw \in InterfaceAnswers : ReadInterfaceName(raw)
    \/ LoadExisting
    \/ \E raw \in MacAnswers : AskMac(raw)
    \/ \E raw \in AliasAnswers : AskAlias(raw)
    \/ \E raw \in BridgeAnswers : AskBridge(raw)
    \/ \E raw \in PvidAnswers : AskPvid(raw)
    \/ \E raw \in EgressAnswers : AskEgress(raw)
    \/ \E raw \in VlanAnswers : AskVlans(raw)
    \/ BuildFlagConfig
    \/ Validate
    \/ Generate
    \/ \E raw \in ConfirmAnswers : Confirm(raw)
    \/ \E ok \in BOOLEAN : MakeDirs(ok)
    \/ \E outcome \in WriteOutcomes : WriteLink(outcome)
    \/ \E outcome \in WriteOutcomes : WriteNetwork(outcome)

Spec == Init /\ [][Next]_vars

\* every command line, up to the validated configuration
InitArgs ==
    /\ args \in AllArgs
    /\ hostMac \in {h \in HostMacs : h.outcome \in {"ok", "FileNotFoundError"}}
    /\ linkFile \in {NoFile, LinkFileFull}
    /\ netFile \in {NoFile, NetFileFull}
    /\ Fresh

NextArgs ==
    \/ SelectMode
    \/ BuildFlagConfig
    \/ Validate

SpecArgs == InitArgs /\ [][NextArgs]_vars

\* flag-mode runs up to the generated artifacts
InitGen ==
    /\ args \in GenArgs
    /\ hostMac = [outcome |-> "FileNotFoundError", text |-> <<>>]
    /\ linkFile = NoFile
    /\ netFile = NoFile
    /\ Fresh

NextGen ==
    \/ SelectMode
    \/ BuildFlagConfig
    \/ Validate
    \/ Generate

SpecGen == InitGen /\ [][NextGen]_vars

\* interactive runs up to the loaded configuration
InitLoader ==
    /\ args = NoArgs
    /\ hostMac = [outcome |-> "ok", text |-> MacHost \o <<"\n">>]
    /\ linkFile = NoFile
    /\ netFile \in LoaderNetFiles
    /\ Fresh

NextLoader ==
    \/ SelectMode
    \/ \E raw \in InterfaceAnswers : ReadInterfaceName(raw)
    \/ LoadExisting

SpecLoader == InitLoader /\ [][NextLoader]_vars

(***************************************************************************)
(* Properties                                                              *)
(***************************************************************************)
HasEv(e) == \E i \in 1..Len(out) : out[i].ev = e

EvBefore(e, f) ==
    \E i, j \in 1..Len(out) : i < j /\ out[i].ev = e /\ out[j].ev = f

Asked == confirmRaw # NotAsked

\* the interactive prompts have all been answered, or the flags copied
FinalConfigBuilt ==
    \/ mode = "interactive" /\ Len(answers) = 6
    \/ mode = "flag" /\ pc # "flag_config"

\* ---- C1 ----------------------------------------------------------------
\* C1 as stated: a confirmation line other than exactly "y" or "Y" leaves
\* the file system untouched and is answered by "Files not written."
C1_Original ==
    (Asked /\ confirmRaw \notin {<<"y">>, <<"Y">>})
        => (fsOps = <<>> /\ HasEv("not_written"))

\* C1 amended: a confirmation line that, with its surrounding whitespace
\* removed, is neither "y" nor "Y" leaves the file system untouched (no
\* directory created, neither file written) and the run reports that the
\* files were not written.
C1_DeclinedWritesNothing ==
    (Asked /\ Strip(confirmRaw) \notin {<<"y">>, <<"Y">>})
        => /\ fsOps = <<>>
           /\ pc = "done"
           /\ out[Len(out)].ev = "not_written"
           /\ ~HasEv("files_written")

C1_Witness ==
    /\ confirmRaw = <<"y", "e", "s">>
    /\ pc = "done"
    /\ HasEv("not_written")

\* ---- C2 ----------------------------------------------------------------
ValidatedMissing ==
    \/ mode = "interactive" /\ pc # "ask_interface" /\ ~Truthy(interface_name)
    \/ /\ mode = "flag" /\ pc \notin {"flag_config", "validate"}
       /\ ~Truthy(config.interface_name)

\* C2: in either branch, once an absent or empty interface name has been
\* validated the run has ended on the missing-interface error: nothing was
\* generated or printed, the write prompt was never shown, nothing written.
C2_MissingNameEndsRun ==
    ValidatedMissing
        => /\ pc = "done"
           /\ out[Len(out)].ev = "error_interface_required"
           /\ \A e \in {"generated_banner", "link_content", "network_content",
                        "iproute2_commands", "systemd_commands", "prompt_write"} :
                  ~HasEv(e)
           /\ link_content = <<>> /\ network_content = <<>>
           /\ iproute2_commands = <<>>
           /\ ~Asked
           /\ fsOps = <<>>

C2_Witness ==
    /\ mode = "flag"
    /\ args.interface = <<>>
    /\ args.bridge = S_br0
    /\ pc = "done"
    /\ HasEv("error_interface_required")

\* ---- C3 ----------------------------------------------------------------
FlagOf(field) ==
    CASE field = "mac_address" -> "mac"
      [] field = "link_alias" -> "alias"
      [] field = "bridge" -> "bridge"
      [] field = "pvid" -> "pvid"
      [] field = "egress_vlan" -> "egress"
      [] field = "vlans" -> "vlans"

PromptOf(field) ==
    CASE field = "mac_address" -> 1
      [] field = "link_alias" -> 2
      [] field = "bridge" -> 3
      [] field = "pvid" -> 4
      [] field = "egress_vlan" -> 5
      [] field = "vlans" -> 6

AsFieldValue(field, text) == IF field = "vlans" THEN SplitComma(text) ELSE text

HasAnswer(field) ==
    mode = "interactive" /\ Strip(answers[PromptOf(field)]) # <<>>

\* what the existing files and the host hold for a field when the branch
\* taken consults them
Discovered(field) ==
    IF "load_existing_config" \notin invoked THEN NoConfig[field]
    ELSE loaded[field]

\* an empty string and an absent value are the same "absent"
Norm(v) == IF v = <<>> THEN None ELSE v

\* C3 as stated: every field of the final configuration is the explicit
\* override (non-empty interactive answer, or supplied flag) when one was
\* given, else the value discovered in the existing files, else (MAC) the
\* host's address, else absent.  An empty flag counts as not supplied and
\* an empty value as absent.
C3_Precedence ==
    FinalConfigBuilt =>
        \A field \in {"mac_address", "link_alias", "bridge", "pvid",
                      "egress_vlan", "vlans"} :
            Norm(config[field]) =
                IF HasAnswer(field)
                THEN AsFieldValue(field, Strip(answers[PromptOf(field)]))
                ELSE IF Truthy(args[FlagOf(field)])
                THEN AsFieldValue(field, args[FlagOf(field)])
                ELSE Norm(Discovered(field))

\* ---- C4 ----------------------------------------------------------------
\* C4 as stated: the interactive branch is taken exactly when --interactive
\* is set or no value-bearing flag is supplied.
C4_Original ==
    pc # "start" =>
        (mode = "interactive"
            <=> (args.interactive \/ \A f \in ValueFlags : args[f] = None))

\* C4 amended: the interactive branch is taken exactly when --interactive is
\* set or every value-bearing flag is absent or empty; otherwise the flag
\* branch is taken, where neither the Resolver nor the Loader is invoked and
\* the configuration is the flag values (the --vlans value split on commas)
\* whatever the host MAC and the existing files hold.
C4_ModeSelection ==
    pc # "start" =>
        /\ mode = "interactive"
              <=> (args.interactive
                   \/ \A f \in ValueFlags : args[f] \in {None, <<>>})
        /\ mode \in {"interactive", "flag"}
        /\ (mode = "flag" /\ pc # "flag_config") =>
              /\ invoked = {}
              /\ loaded = NoConfig
              /\ config.interface_name = args.interface
              /\ config.mac_address = args.mac
              /\ config.link_alias = args.alias
              /\ config.bridge = args.bridge
              /\ config.pvid = args.pvid
              /\ config.egress_vlan = args.egress
              /\ config.vlans = IF args.vlans \in {None, <<>>} THEN <<>>
                                ELSE SplitComma(args.vlans)

C4_Witness ==
    /\ mode = "flag"
    /\ pc = "generate"
    /\ ~args.interactive
    /\ args.vlans # None /\ args.vlans # <<>> /\ args.bridge = None
    /\ hostMac.outcome = "ok"
    /\ linkFile = LinkFileFull
    /\ netFile = NetFileFull
    /\ config.mac_address = args.mac
    /\ config.bridge = None
    /\ Len(config.vlans) = 2

\* ---- C5 ----------------------------------------------------------------
Generated == HasEv("iproute2_commands")

ExampleConfig ==
    /\ config.interface_name = S_eth0
    /\ config.vlans = <<V10, V20, V30>>
    /\ config.pvid = V10
    /\ config.egress_vlan = V30

\* C5 as stated: for interface eth0, vlans [10,20,30], pvid 10, egress 30 the
\* command list is the plain add of 20, the pvid-untagged add of 10, the
\* plain add of 30.
C5_Original ==
    (Generated /\ ExampleConfig) =>
        iproute2_commands =
            << <<"bridge vlan add vid", V20, "dev", S_eth0>>,
               <<"bridge vlan add vid", V10, "dev", S_eth0, "pvid untagged">>,
               <<"bridge vlan add vid", V30, "dev", S_eth0>> >>

\* the list s without the elements equal to x, order kept
RECURSIVE Without(_, _)
Without(s, x) ==
    IF s = <<>> THEN <<>>
    ELSE (IF Head(s) = x THEN <<>> ELSE <<Head(s)>>) \o Without(Tail(s), x)

\* C5 amended: for that configuration the command list is the plain adds of
\* 20 and of 30, then the pvid-untagged add of 10, then the plain add of the
\* egress VLAN 30 once more; in general the plain adds of the VLAN IDs that
\* differ from the PVID come first in list order, then the single PVID
\* command when a PVID is given, then the egress command when an egress VLAN
\* is given and differs from the PVID.
C5_CommandOrder ==
    Generated =>
        LET name == config.interface_name
            plain == Without(config.vlans, config.pvid)
            n == Len(plain)
            p == IF config.pvid \in {None, <<>>} THEN 0 ELSE 1
            e == IF config.egress_vlan \in {None, <<>>}
                    \/ config.egress_vlan = config.pvid THEN 0 ELSE 1
            cmds == iproute2_commands
        IN  /\ Len(cmds) = n + p + e
            /\ \A i \in 1..n :
                  cmds[i] = <<"bridge vlan add vid", plain[i], "dev", name>>
            /\ p = 1 => cmds[n + 1] = <<"bridge vlan add vid", config.pvid,
                                        "dev", name, "pvid untagged">>
            /\ e = 1 => cmds[n + p + 1] = <<"bridge vlan add vid",
                                            config.egress_vlan, "dev", name>>
            /\ ExampleConfig =>
                  cmds = << <<"bridge vlan add vid", V20, "dev", S_eth0>>,
                            <<"bridge vlan add vid", V30, "dev", S_eth0>>,
                            <<"bridge vlan add vid", V10, "dev", S_eth0,
                              "pvid untagged">>,
                            <<"bridge vlan add vid", V30, "dev", S_eth0>> >>

C5_Witness ==
    /\ mode = "flag"
    /\ Generated
    /\ ExampleConfig
    /\ Len(iproute2_commands) = 4

\* ---- C6 ----------------------------------------------------------------
IsNoneLiteral(v) == v \in {S_none, S_None, S_NONE}

\* C6: a pvid (an egress_vlan) that is the literal "none" in any letter case
\* is absent to every generator: no PVID= (EgressUntagged=) line in the
\* network content, no pvid-untagged command (no egress command) in the
\* command list.
C6_NoneIsAbsent ==
    Generated =>
        /\ IsNoneLiteral(config.pvid) =>
              /\ \A i \in 1..Len(network_content) :
                     network_content[i][1] # "PVID="
              /\ \A i \in 1..Len(iproute2_commands) :
                     Len(iproute2_commands[i]) # 5
        /\ IsNoneLiteral(config.egress_vlan) =>
              /\ \A i \in 1..Len(network_content) :
                     network_content[i][1] # "EgressUntagged="
              /\ \A i \in 1..Len(iproute2_commands) :
                     iproute2_commands[i][2] # config.egress_vlan

\* ---- C7 ----------------------------------------------------------------
\* C7: after the existing configuration is loaded, empty answers to all six
\* prompts leave every field as loaded; a non-empty VLAN answer makes the
\* VLAN list the comma-split answer, none of the loaded IDs kept.
C7_EmptyKeepsAnswerReplaces ==
    (mode = "interactive" /\ Len(answers) = 6) =>
        /\ (\A i \in 1..6 : answers[i] = <<>>) => config = loaded
        /\ \A f \in {"mac_address", "link_alias", "bridge", "pvid", "egress_vlan"} :
              Strip(answers[PromptOf(f)]) = <<>> => config[f] = loaded[f]
        /\ Strip(answers[6]) = <<>> => config.vlans = loaded.vlans
        /\ Strip(answers[6]) = JoinComma(<<V11, V12>>) =>
              config.vlans = <<V11, V12>>
        /\ Strip(answers[6]) # <<>> =>
              /\ config.vlans = SplitComma(Strip(answers[6]))
              /\ JoinComma(config.vlans) = Strip(answers[6])

C7_Witness ==
    /\ mode = "interactive"
    /\ Len(answers) = 6
    /\ \A i \in 1..5 : answers[i] = <<>>
    /\ answers[6] = JoinComma(<<V11, V12>>)
    /\ Range(loaded.vlans) = {V10, V20}
    /\ loaded.pvid = V10
    /\ config = [loaded EXCEPT !.vlans = <<V11, V12>>]

\* ---- C8 ----------------------------------------------------------------
\* the IDs of the VLAN= lines of the (first) section with that header
ListedVlanIds(file, name) ==
    IF HasSection(file.sections, name)
    THEN Range(FindAllDigits(SectionSearch(file.sections, name), K_VLAN))
    ELSE {}

PassedValidation ==
    pc \in {"confirm", "makedirs", "write_link", "write_network"} \/ Asked

\* C9: in a run that passed validation the link content, the network content
\* and the advisory commands are on the console before the write prompt,
\* whatever is answered; and nothing is created or written before the prompt
\* has been answered.
C9_PrintedBeforePrompt ==
    /\ PassedValidation =>
          /\ \E i \in 1..Len(out) :
                 out[i].ev = "link_content" /\ out[i].data = link_content
          /\ \E i \in 1..Len(out) :
                 out[i].ev = "network_content" /\ out[i].data = network_content
          /\ \E i \in 1..Len(out) :
                 out[i].ev = "iproute2_commands" /\ out[i].data = iproute2_commands
          /\ HasEv("systemd_commands")
    /\ Asked <=> HasEv("prompt_write")
    /\ \A j \in 1..Len(out) :
          out[j].ev = "prompt_write" =>
              \A e \in {"link_content", "network_content", "iproute2_commands",
                        "systemd_commands"} :
                  /\ \E i \in 1..(j - 1) : out[i].ev = e
                  /\ \A i \in (j + 1)..Len(out) : out[i].ev # e
    /\ ~Asked => fsOps = <<>>

C9_Witness ==
    /\ confirmRaw = <<"n">>
    /\ pc = "done"
    /\ EvBefore("iproute2_commands", "prompt_write")
    /\ EvBefore("link_content", "prompt_write")
    /\ fsOps = <<>>

\* ---- C10 ---------------------------------------------------------------
\* C10: no failure makes the run crash: whatever the read of the host MAC
\* attribute, of the existing files, the directory creation or the file
\* writes do, the run never ends in an uncaught exception.
C10_NeverCrashes == pc # "crashed"

====
